---- MODULE Spec2Model ----
(***************************************************************************)
(* Model of main.go: the interactive shell (main), the three commands      *)
(* (viewSwagger, createSwagger, updateSwagger), schema inference           *)
(* (generateSchema, getSwaggerType) and the persistence helpers            *)
(* (readSwaggerFile, writeSwaggerFile).                                    *)
(*                                                                         *)
(* A string is a record: `text` is its letters in lower case with the      *)
(* surrounding white space removed, `upper` says that some letter is in    *)
(* upper case, `pad` says that white space surrounds it.  A JSON object    *)
(* text carries its members, in the order they are written, in `members`.  *)
(***************************************************************************)
EXTENDS Integers, Sequences, FiniteSets, TLC

\* Number of lines the input stream holds before it ends.
MaxLines == 10

----------------------------------------------------------------------------
\* Strings and lines

Str(t) == [text |-> t, upper |-> FALSE, pad |-> FALSE, members |-> <<>>]

Upper(s) == [s EXCEPT !.upper = TRUE]

Pad(s) == [s EXCEPT !.pad = TRUE]

Key(t) == [text |-> t, upper |-> FALSE]

KeyUpper(t) == [text |-> t, upper |-> TRUE]

Member(k, v) == [key |-> k, val |-> v]

JsonObject(ms) == [text |-> "{}", upper |-> FALSE, pad |-> FALSE, members |-> ms]

\* What ReadString returns once the stream has ended: the empty string.
EndOfInput == Str("")

\* strings.ToLower: every letter, those of the keys of a JSON text included.
ToLower(s) ==
    [s EXCEPT !.upper = FALSE,
              !.members = [i \in DOMAIN s.members |->
                              [s.members[i] EXCEPT !.key.upper = FALSE]]]

\* strings.TrimSpace
TrimSpace(s) == [s EXCEPT !.pad = FALSE]

----------------------------------------------------------------------------
\* The Specification Model (Schema, MediaType, Response, Operation, Document)

NoMap == <<>>

Schema(t, props) == [type |-> t, properties |-> props]

MediaType(s) == [schema |-> s]

Response(d, s) == [description |-> d, content |-> ("application/json" :> MediaType(s))]

\* nilResponses: the Responses map is nil (the file has no responses key).
Operation(sum, desc, isNil, resps) ==
    [summary |-> sum, description |-> desc, nilResponses |-> isNil, responses |-> resps]

\* A summary is a literal followed by a string ("" + s = s).
Summary(lit, s) == [lit |-> lit, arg |-> s]

SwaggerTemplate(v, info, paths) == [openapi |-> v, info |-> info, paths |-> paths]

\* The zero value yaml.Unmarshal leaves for an empty file.
ZeroDoc == SwaggerTemplate("", "", NoMap)

----------------------------------------------------------------------------
\* encoding/json: a JSON literal decoded into interface{}

JsonLiterals == {"str", "int", "frac", "bool", "array", "object", "null"}

\* The reflect.Kind of the decoded value; a JSON number is always a
\* float64, JSON null is the nil interface (reflect.TypeOf gives nil).
GoKind(lit) ==
    CASE lit = "str" -> "String"
      [] lit = "int" -> "Float64"
      [] lit = "frac" -> "Float64"
      [] lit = "bool" -> "Bool"
      [] lit = "array" -> "Slice"
      [] lit = "object" -> "Map"
      [] lit = "null" -> "Nil"

Decoded(lit) == [kind |-> GoKind(lit), lit |-> lit]

\* The keys of a JSON object text, as written.
KeysOf(ms) == {ms[i].key : i \in DOMAIN ms}

\* The last member written with key k wins.
LastIndex(ms, k) ==
    CHOOSE i \in DOMAIN ms :
        /\ ms[i].key = k
        /\ \A j \in DOMAIN ms : ms[j].key = k => j <= i

\* json.Unmarshal(text, &jsonData) with jsonData a nil map[string]interface{}:
\* an object fills the map, the literal null leaves it nil without an
\* error, anything else is an error.
JsonUnmarshal(s) ==
    IF s.text = "{}"
    THEN [err |-> FALSE, isNil |-> FALSE,
          data |-> [k \in KeysOf(s.members) |->
                       Decoded(s.members[LastIndex(s.members, k)].val)]]
    ELSE IF s.text = "null" /\ ~s.upper
    THEN [err |-> FALSE, isNil |-> TRUE, data |-> NoMap]
    ELSE [err |-> TRUE, isNil |-> TRUE, data |-> NoMap]

----------------------------------------------------------------------------
\* Schema inference

getSwaggerType(kind) ==
    CASE kind = "String" -> "string"
      [] kind \in {"Int", "Int32", "Int64"} -> "integer"
      [] kind \in {"Float32", "Float64"} -> "number"
      [] kind = "Bool" -> "boolean"
      [] kind = "Slice" -> "array"
      [] kind = "Map" -> "object"
      [] OTHER -> "string"

\* reflect.TypeOf(value).Kind() on a nil interface: a nil dereference.
KindPanics(data) == \E k \in DOMAIN data : data[k].kind = "Nil"

PropSchema(value) ==
    LET fieldType == value.kind
        t == getSwaggerType(fieldType)
    IN  Schema(IF fieldType = "Map" THEN "object"
               ELSE IF fieldType = "Slice" THEN "array"
               ELSE t,
               NoMap)

generateSchema(data) ==
    Schema("object", [k \in DOMAIN data |-> PropSchema(data[k])])

----------------------------------------------------------------------------
\* The merge of updateSwagger

HasOp(doc, p, m) == p \in DOMAIN doc.paths /\ m \in DOMAIN doc.paths[p]

\* if swagger.Paths[path] == nil { swagger.Paths[path] = make(...) }
EnsurePath(doc, p) ==
    IF p \in DOMAIN doc.paths
    THEN doc
    ELSE [doc EXCEPT !.paths = (p :> NoMap) @@ doc.paths]

\* Mutant of SetOp: the path's map is made afresh, losing its other methods.
SetOp_DropsSiblings(doc, p, m, op) ==
    [doc EXCEPT !.paths = (p :> (m :> op)) @@ doc.paths]

SetOp(doc, p, m, op) ==
    [doc EXCEPT !.paths = (p :> ((m :> op) @@ doc.paths[p])) @@ doc.paths]

SuccessResponse(schema) == Response("Successful response", schema)

\* existingOperation.Responses["200"] = Response{...}
UpdatedOperation(op, schema) ==
    [op EXCEPT !.responses = ("200" :> SuccessResponse(schema)) @@ op.responses]

NewOperation(p, schema) ==
    Operation(Summary("Sample operation for ", p),
              "This is a sample description for the new operation.",
              FALSE,
              "200" :> SuccessResponse(schema))

\* An assignment to an entry of a nil map panics.
MergePanics(doc, p, m) == HasOp(doc, p, m) /\ doc.paths[p][m].nilResponses

applyOperation(doc, p, m, schema) ==
    LET d == EnsurePath(doc, p)
    IN  IF HasOp(d, p, m)
        THEN SetOp(d, p, m, UpdatedOperation(d.paths[p][m], schema))
        ELSE SetOp(d, p, m, NewOperation(p, schema))

----------------------------------------------------------------------------
\* Files

\* A file: missing, a YAML text holding `doc`, a JSON text `json`, a text
\* that is neither ("garbage"), or an empty file.
File(kind, doc, json) == [kind |-> kind, doc |-> doc, json |-> json]

MissingFile == File("missing", ZeroDoc, EndOfInput)

GarbageFile == File("garbage", ZeroDoc, EndOfInput)

EmptyFile == File("empty", ZeroDoc, EndOfInput)

YamlFile(doc) == File("yaml", doc, EndOfInput)

JsonFile(text) == File("json", ZeroDoc, text)

\* ioutil.ReadFile
ReadFile(fsys, name) ==
    IF name \in DOMAIN fsys /\ fsys[name].kind # "missing"
    THEN [err |-> FALSE, data |-> fsys[name]]
    ELSE [err |-> TRUE, data |-> MissingFile]

\* yaml.Marshal: a nil map is written as {}.
YamlMarshal(doc) ==
    YamlFile([doc EXCEPT !.paths =
        [p \in DOMAIN doc.paths |->
            [m \in DOMAIN doc.paths[p] |->
                [doc.paths[p][m] EXCEPT !.nilResponses = FALSE]]]])

\* yaml.Unmarshal into a SwaggerTemplate: an empty text leaves the zero
\* value; a JSON object or null is YAML too, and its unknown keys are
\* dropped; a sequence or a scalar does not fit the struct.
YamlUnmarshal(data) ==
    CASE data.kind = "yaml" -> [err |-> FALSE, doc |-> data.doc]
      [] data.kind = "empty" -> [err |-> FALSE, doc |-> ZeroDoc]
      [] data.kind = "json" /\ ~JsonUnmarshal(data.json).err ->
             [err |-> FALSE, doc |-> ZeroDoc]
      [] OTHER -> [err |-> TRUE, doc |-> ZeroDoc]

\* The bytes of a file handed to json.Unmarshal.
FileText(data) == IF data.kind = "json" THEN data.json ELSE Str("?")

readSwaggerFile(fsys, name) ==
    LET r == ReadFile(fsys, name)
        y == YamlUnmarshal(r.data)
    IN  IF r.err THEN [err |-> "ReadFile", doc |-> ZeroDoc]
        ELSE IF y.err THEN [err |-> "YamlUnmarshal", doc |-> ZeroDoc]
        ELSE [err |-> "", doc |-> y.doc]

\* ioutil.WriteFile opens with O_WRONLY|O_CREATE|O_TRUNC and then writes:
\* it fails at the open, leaving the file alone, or after the open, with
\* the file already truncated and none or part of the data in it.
WriteOutcomes(name) ==
    IF name.text = "" THEN {"open"} ELSE {"ok", "open", "truncated", "partial"}

\* Mutant of WriteFile: the data reaches the file whatever the call reports.
WriteFile_IgnoresOutcome(fsys, name, data, outcome) == (name :> data) @@ fsys

WriteFile(fsys, name, data, outcome) ==
    CASE outcome = "ok" -> (name :> data) @@ fsys
      [] outcome = "open" -> fsys
      [] outcome = "truncated" -> (name :> EmptyFile) @@ fsys
      [] outcome = "partial" -> (name :> GarbageFile) @@ fsys

\* The document createSwagger writes.
NewDoc == SwaggerTemplate("3.0.3", "New API", NoMap)

----------------------------------------------------------------------------
\* The program state

VARIABLES
    pc,         \* where main is: the ReadString it waits in, or its end
    remaining,  \* lines the input stream still holds
    fs,         \* the files on disk
    action,     \* main: action
    filePath,   \* main: filePath
    swagger,    \* updateSwagger: swagger, the document in memory
    path,       \* updateSwagger: path
    method,     \* updateSwagger: method
    source,     \* where the JSON sample came from: "literal" or "file"
    jsonText,   \* the JSON sample as supplied (the typed line, or the file's text)
    jsonData,   \* updateSwagger: jsonData, the result of json.Unmarshal
    schema,     \* updateSwagger: schema
    log,        \* what the current command has done so far, in order
    err,        \* the error the command returned ("" for none)
    out         \* the last line printed

vars == <<pc, remaining, fs, action, filePath, swagger, path, method, source,
          jsonText, jsonData, schema, log, err, out>>

NoData == [err |-> FALSE, isNil |-> TRUE, data |-> NoMap]

NoSchema == Schema("", NoMap)

\* The lines a user may type at each prompt.
SampleObjects ==
    { JsonObject(<<Member(Key("id"), "int"), Member(Key("name"), "str")>>),
      JsonObject(<<Member(Key("id"), "int")>>),
      JsonObject(<<Member(KeyUpper("id"), "frac"), Member(Key("id"), "bool")>>),
      JsonObject(<<Member(Key("tags"), "array"), Member(Key("owner"), "object")>>),
      JsonObject(<<Member(Key("id"), "null")>>) }

OtherJson == {Str("null"), Str("[]"), Str("1"), Str("oops")}

TargetFile == Str("a.yaml")

SampleFile == Str("s.json")

ActionLines ==
    { Pad(Upper(Str("exit"))), Str("view"), Str("create"), Upper(Str("update")),
      Str("/pets"), Str("get"),
      JsonObject(<<Member(Key("id"), "int")>>) }

FilePathLines == {Pad(TargetFile)}

PathLines == {Pad(Str("/pets")), Str("/users")}

MethodLines == {Upper(Str("get")), Str("post")}

JsonInputLines == SampleObjects \cup OtherJson \cup {Upper(Str("file"))}

JsonFileLines == {SampleFile}

\* The documents the target file may hold when the program starts.
ListPets ==
    Operation(Summary("List pets", EndOfInput), "Returns all pets", FALSE,
              ("200" :> Response("OK", Schema("array", NoMap)))
              @@ ("404" :> Response("Not found", Schema("object", NoMap))))

AddPet == Operation(Summary("Add a pet", EndOfInput), "Adds a pet", FALSE, NoMap)

BareOp == Operation(Summary("List pets", EndOfInput), "Returns all pets", TRUE, NoMap)

PetsDoc ==
    SwaggerTemplate("3.0.3", "Pets API",
                    Str("/pets") :> ((Str("get") :> ListPets) @@ (Str("post") :> AddPet)))

BareDoc == SwaggerTemplate("3.0.3", "Pets API", Str("/pets") :> (Str("get") :> BareOp))

InitTargets == {MissingFile, GarbageFile, YamlFile(NewDoc), YamlFile(PetsDoc), YamlFile(BareDoc)}

InitSamples == {MissingFile} \cup {JsonFile(t) : t \in SampleObjects \cup {Str("null"), Str("oops")}}

Init ==
    /\ pc = "prompt"
    /\ remaining \in 0..MaxLines
    /\ fs \in {(TargetFile :> t) @@ (SampleFile :> j) : t \in InitTargets, j \in InitSamples}
    /\ action = EndOfInput
    /\ filePath = EndOfInput
    /\ swagger = ZeroDoc
    /\ path = EndOfInput
    /\ method = EndOfInput
    /\ source = ""
    /\ jsonText = EndOfInput
    /\ jsonData = NoData
    /\ schema = NoSchema
    /\ log = <<>>
    /\ err = ""
    /\ out = ""

\* reader.ReadString('\n') with its error dropped: the next line, or the
\* empty string once the stream has ended.
Avail(lines) == IF remaining > 0 THEN lines ELSE {EndOfInput}

Consume == remaining' = IF remaining > 0 THEN remaining - 1 ELSE 0

----------------------------------------------------------------------------
\* main

\* action, _ := reader.ReadString('\n'); action = ToLower(TrimSpace(action))
ReadAction ==
    /\ pc = "prompt"
    /\ \E l \in Avail(ActionLines) : action' = ToLower(TrimSpace(l))
    /\ Consume
    /\ pc' = "dispatch"
    /\ filePath' = EndOfInput
    /\ swagger' = ZeroDoc
    /\ path' = EndOfInput
    /\ method' = EndOfInput
    /\ source' = ""
    /\ jsonText' = EndOfInput
    /\ jsonData' = NoData
    /\ schema' = NoSchema
    /\ log' = <<>>
    /\ err' = ""
    /\ out' = "Enter action (view/create/update/exit): "
    /\ UNCHANGED fs

Exit ==
    /\ pc = "dispatch"
    /\ action = Str("exit")
    /\ pc' = "done"
    /\ out' = "Exiting program."
    /\ UNCHANGED <<remaining, fs, action, filePath, swagger, path, method, source,
                   jsonText, jsonData, schema, log, err>>

DispatchView ==
    /\ pc = "dispatch"
    /\ action = Str("view")
    /\ pc' = "view_path"
    /\ out' = "Enter the path to the Swagger YAML file: "
    /\ UNCHANGED <<remaining, fs, action, filePath, swagger, path, method, source,
                   jsonText, jsonData, schema, log, err>>

DispatchCreate ==
    /\ pc = "dispatch"
    /\ action = Str("create")
    /\ pc' = "create_path"
    /\ out' = "Enter the path to create a new Swagger YAML file: "
    /\ UNCHANGED <<remaining, fs, action, filePath, swagger, path, method, source,
                   jsonText, jsonData, schema, log, err>>

DispatchUpdate ==
    /\ pc = "dispatch"
    /\ action = Str("update")
    /\ pc' = "update_file"
    /\ out' = "Enter the path to the Swagger YAML file: "
    /\ UNCHANGED <<remaining, fs, action, filePath, swagger, path, method, source,
                   jsonText, jsonData, schema, log, err>>

InvalidAction ==
    /\ pc = "dispatch"
    /\ action \notin {Str("exit"), Str("view"), Str("create"), Str("update")}
    /\ pc' = "prompt"
    /\ out' = "Invalid action."
    /\ UNCHANGED <<remaining, fs, action, filePath, swagger, path, method, source,
                   jsonText, jsonData, schema, log, err>>

----------------------------------------------------------------------------
\* viewSwagger and createSwagger, each with the ReadString before it

writeSwaggerFile(fsys, name, doc, outcome) == WriteFile(fsys, name, YamlMarshal(doc), outcome)

\* The error of ioutil.WriteFile names the call that failed.
WriteErr(outcome) ==
    CASE outcome = "ok" -> ""
      [] outcome = "open" -> "WriteFile: open"
      [] OTHER -> "WriteFile: write"

ViewSwagger ==
    /\ pc = "view_path"
    /\ \E l \in Avail(FilePathLines) :
          LET name == TrimSpace(l)
              r == ReadFile(fs, name)
          IN  /\ filePath' = name
              /\ err' = IF r.err THEN "ReadFile" ELSE ""
              /\ out' = IF r.err THEN "Error viewing Swagger file:"
                        ELSE "Swagger File Contents:"
    /\ Consume
    /\ log' = <<"line", "readfile">>
    /\ pc' = "prompt"
    /\ UNCHANGED <<fs, action, swagger, path, method, source, jsonText, jsonData, schema>>

CreateSwagger ==
    /\ pc = "create_path"
    /\ \E l \in Avail(FilePathLines) :
          LET name == TrimSpace(l)
          IN  \E o \in WriteOutcomes(name) :
                  /\ filePath' = name
                  /\ fs' = writeSwaggerFile(fs, name, NewDoc, o)
                  /\ err' = WriteErr(o)
                  /\ out' = IF o = "ok" THEN "Swagger file updated successfully."
                            ELSE "Error creating Swagger file:"
    /\ Consume
    /\ log' = <<"line", "write">>
    /\ pc' = "prompt"
    /\ UNCHANGED <<action, swagger, path, method, source, jsonText, jsonData, schema>>

----------------------------------------------------------------------------
\* updateSwagger

\* main reads filePath, then updateSwagger begins with readSwaggerFile and
\* returns its error at once.
UpdateFile ==
    /\ pc = "update_file"
    /\ \E l \in Avail(FilePathLines) :
          LET name == TrimSpace(l)
              r == readSwaggerFile(fs, name)
          IN  /\ filePath' = name
              /\ err' = r.err
              /\ swagger' = r.doc
              /\ pc' = IF r.err = "" THEN "update_path" ELSE "prompt"
              /\ out' = IF r.err = "" THEN "Enter the path to add/update (e.g., /pets): "
                        ELSE "Error updating Swagger file:"
    /\ Consume
    /\ log' = <<"line", "read">>
    /\ UNCHANGED <<fs, action, path, method, source, jsonText, jsonData, schema>>

\* Mutant of UpdatePath: the method prompt is forgotten.
UpdatePath_SkipsMethod ==
    /\ pc = "update_path"
    /\ \E l \in Avail(PathLines) : path' = TrimSpace(l)
    /\ Consume
    /\ log' = Append(log, "line")
    /\ pc' = "update_json"
    /\ out' = "Enter JSON response directly or type 'file' to provide a file path: "
    /\ UNCHANGED <<fs, action, filePath, swagger, method, source, jsonText, jsonData,
                   schema, err>>

UpdatePath ==
    /\ pc = "update_path"
    /\ \E l \in Avail(PathLines) : path' = TrimSpace(l)
    /\ Consume
    /\ log' = Append(log, "line")
    /\ pc' = "update_method"
    /\ out' = "Enter HTTP method (get/post/put/delete): "
    /\ UNCHANGED <<fs, action, filePath, swagger, method, source, jsonText, jsonData,
                   schema, err>>

UpdateMethod ==
    /\ pc = "update_method"
    /\ \E l \in Avail(MethodLines) : method' = ToLower(TrimSpace(l))
    /\ Consume
    /\ log' = Append(log, "line")
    /\ pc' = "update_json"
    /\ out' = "Enter JSON response directly or type 'file' to provide a file path: "
    /\ UNCHANGED <<fs, action, filePath, swagger, path, source, jsonText, jsonData,
                   schema, err>>

\* The end of a command: what it leaves in the locals, on disk and on the
\* screen, and where main goes next.
Ends(jd, sc, sw, f, e, o, p, lg) ==
    /\ jsonData' = jd
    /\ schema' = sc
    /\ swagger' = sw
    /\ fs' = f
    /\ err' = e
    /\ out' = o
    /\ pc' = p
    /\ log' = lg

\* From json.Unmarshal to the return of updateSwagger (lines 150-207):
\* decode, generateSchema, the merge, writeSwaggerFile.
Complete(text, lg) ==
    LET jd == JsonUnmarshal(text)
        sc == generateSchema(jd.data)
        branch == IF HasOp(swagger, path, method) THEN "updating" ELSE "creating"
        merged == applyOperation(swagger, path, method, sc)
    IN  IF jd.err
        THEN Ends(jd, NoSchema, swagger, fs, "JsonUnmarshal",
                  "Error updating Swagger file:", "prompt", lg \o <<"decode">>)
        ELSE IF KindPanics(jd.data)
        THEN Ends(jd, NoSchema, swagger, fs, "", "panic: nil pointer dereference",
                  "panicked", lg \o <<"decode", "infer">>)
        ELSE IF MergePanics(swagger, path, method)
        THEN Ends(jd, sc, swagger, fs, "", "panic: assignment to entry in nil map",
                  "panicked", lg \o <<"decode", "infer", branch>>)
        ELSE \E o \in WriteOutcomes(filePath) :
                 Ends(jd, sc, merged, writeSwaggerFile(fs, filePath, merged, o),
                      WriteErr(o),
                      IF o = "ok" THEN "Swagger file updated successfully."
                      ELSE "Error updating Swagger file:",
                      "prompt", lg \o <<"decode", "infer", branch, "write">>)

\* inputType = TrimSpace(ToLower(line)); the keyword file asks for a path,
\* anything else is decoded as the JSON sample.
UpdateInput ==
    /\ pc = "update_json"
    /\ \E l \in Avail(JsonInputLines) :
          LET inputType == TrimSpace(ToLower(l))
          IN  IF inputType = Str("file")
              THEN /\ pc' = "update_jsonfile"
                   /\ source' = "file"
                   /\ jsonText' = EndOfInput
                   /\ log' = Append(log, "line")
                   /\ out' = "Enter the JSON file path: "
                   /\ UNCHANGED <<fs, swagger, jsonData, schema, err>>
              ELSE /\ source' = "literal"
                   /\ jsonText' = l
                   /\ Complete(inputType, Append(log, "line"))
    /\ Consume
    /\ UNCHANGED <<action, filePath, path, method>>

UpdateJsonFile ==
    /\ pc = "update_jsonfile"
    /\ \E l \in Avail(JsonFileLines) :
          LET r == ReadFile(fs, TrimSpace(l))
          IN  IF r.err
              THEN /\ jsonText' = EndOfInput
                   /\ Ends(jsonData, schema, swagger, fs, "ReadFile",
                           "Error updating Swagger file:", "prompt",
                           log \o <<"line", "readfile">>)
              ELSE /\ jsonText' = FileText(r.data)
                   /\ Complete(FileText(r.data), log \o <<"line", "readfile">>)
    /\ Consume
    /\ UNCHANGED <<action, filePath, path, method, source>>

----------------------------------------------------------------------------

Next ==
    \/ ReadAction
    \/ Exit
    \/ DispatchView
    \/ DispatchCreate
    \/ DispatchUpdate
    \/ InvalidAction
    \/ ViewSwagger
    \/ CreateSwagger
    \/ UpdateFile
    \/ UpdatePath
    \/ UpdateMethod
    \/ UpdateInput
    \/ UpdateJsonFile

Spec == Init /\ [][Next]_vars

\* The program is sequential and runs whenever it can take a step.
FairSpec == Spec /\ WF_vars(Next)

----------------------------------------------------------------------------
\* Properties

Did(lg, e) == \E i \in DOMAIN lg : lg[i] = e

Count(lg, e) == Cardinality({i \in DOMAIN lg : lg[i] = e})

\* The step in which updateSwagger decodes, infers, merges and writes.
Completing == pc \in {"update_json", "update_jsonfile"}

\* The schema stored for (p, m) under "200" in a document.
StoredSchema(doc, p, m) == doc.paths[p][m].responses["200"].content["application/json"].schema

\* C1: when the operation at (path, method) exists, the update keeps its
\* summary and description and every response code other than "200", and
\* sets responses["200"] to a fresh Response wrapping the new schema.
C1_UpdateKeepsOperation ==
    [][ (Completing /\ Did(log', "updating")) =>
          /\ pc' # "panicked"
          /\ HasOp(swagger', path, method)
          /\ LET old == swagger.paths[path][method]
                 new == swagger'.paths[path][method]
             IN  /\ new.summary = old.summary
                 /\ new.description = old.description
                 /\ \A c \in DOMAIN old.responses \ {"200"} :
                        c \in DOMAIN new.responses /\ new.responses[c] = old.responses[c]
                 /\ DOMAIN new.responses = DOMAIN old.responses \cup {"200"}
                 /\ new.responses["200"].description = "Successful response"
                 /\ DOMAIN new.responses["200"].content = {"application/json"}
                 /\ StoredSchema(swagger', path, method) = schema' ]_vars

\* C2: when no operation exists at (path, method), the update adds exactly
\* one Operation there, with summary "Sample operation for " + path, the
\* placeholder description and the single response "200" wrapping the
\* inferred schema; every other entry of the document is unchanged and no
\* other path gets an entry.
C2_CreateAddsOneOperation ==
    [][ (Completing /\ Did(log', "creating")) =>
          /\ ~HasOp(swagger, path, method)
          /\ HasOp(swagger', path, method)
          /\ LET new == swagger'.paths[path][method]
             IN  /\ new.summary = [lit |-> "Sample operation for ", arg |-> path]
                 /\ new.description = "This is a sample description for the new operation."
                 /\ ~new.nilResponses
                 /\ DOMAIN new.responses = {"200"}
                 /\ DOMAIN new.responses["200"].content = {"application/json"}
                 /\ StoredSchema(swagger', path, method) = schema'
                 /\ DOMAIN schema'.properties = DOMAIN jsonData'.data
          /\ DOMAIN swagger'.paths = DOMAIN swagger.paths \cup {path}
          /\ \A p \in DOMAIN swagger.paths :
                /\ DOMAIN swagger'.paths[p] =
                      DOMAIN swagger.paths[p] \cup (IF p = path THEN {method} ELSE {})
                /\ \A m \in DOMAIN swagger.paths[p] :
                      swagger'.paths[p][m] = swagger.paths[p][m]
          /\ path \notin DOMAIN swagger.paths => DOMAIN swagger'.paths[path] = {method}
          /\ swagger'.openapi = swagger.openapi
          /\ swagger'.info = swagger.info ]_vars

\* A new operation was added to a path that already held another method,
\* and the document was written.
C2_Witness ==
    /\ pc = "prompt"
    /\ Did(log, "creating")
    /\ err = ""
    /\ HasOp(swagger, path, method)
    /\ Cardinality(DOMAIN swagger.paths[path]) > 1
    /\ fs[filePath] = YamlMarshal(swagger)

\* The type the specification gives each kind of JSON value.
ClaimedType(lit) ==
    CASE lit = "str" -> "string"
      [] lit = "int" -> "integer"
      [] lit = "frac" -> "number"
      [] lit = "bool" -> "boolean"
      [] lit = "array" -> "array"
      [] lit = "object" -> "object"
      [] lit = "null" -> "string"

\* C3: each property's type follows the kind of the decoded value (an
\* integer-valued number gives "integer"), and a property has no
\* properties of its own.
C3_TypeOfEachKind ==
    schema # NoSchema =>
        \A k \in DOMAIN jsonData.data :
            /\ k \in DOMAIN schema.properties
            /\ jsonData.data[k].lit # "null" =>
                   schema.properties[k].type = ClaimedType(jsonData.data[k].lit)
            /\ schema.properties[k].properties = NoMap

\* C4: inference is total: a key whose value is JSON null gets a property
\* of type "string", and inference never aborts.
C4_NullGivesString ==
    (Did(log, "infer") /\ \E k \in DOMAIN jsonData.data : jsonData.data[k].lit = "null") =>
        /\ pc # "panicked"
        /\ \A k \in DOMAIN jsonData.data :
               jsonData.data[k].lit = "null" =>
                   k \in DOMAIN schema.properties /\ schema.properties[k].type = "string"

Running ==
    {"prompt", "dispatch", "view_path", "create_path", "update_file", "update_path",
     "update_method", "update_json", "update_jsonfile"}

\* C5: no command failure ends the process: it ends only on the exit action.
C5_OnlyExitEndsTheProcess ==
    pc \notin Running => (pc = "done" /\ action = Str("exit"))

\* C6: an update that ends in an error leaves the files as they were.
C6_ErrorLeavesFileAlone ==
    [][ (pc \in {"update_file", "update_json", "update_jsonfile"} /\ pc' = "prompt"
         /\ err' # "") => fs' = fs ]_vars

\* C6, amended: an update that ends in an error raised before the write,
\* or by the write failing to open the file, leaves the files as they were;
\* and the write is reached only after the merge.
C6_ErrorBeforeWriteLeavesFileAlone ==
    [][ (pc \in {"update_file", "update_json", "update_jsonfile"} /\ pc' = "prompt") =>
          /\ (err' \notin {"", "WriteFile: write"}) => fs' = fs
          /\ fs' # fs => (Did(log', "write") /\ (Did(log', "creating") \/ Did(log', "updating")))
      ]_vars

\* An update whose write failed at the open, the target still a document.
C6_Witness ==
    /\ pc = "prompt"
    /\ action = Str("update")
    /\ err = "WriteFile: open"
    /\ Did(log, "write")
    /\ fs[filePath].kind = "yaml"

\* C7: a JSON text that does not decode to an object makes the update fail
\* before inference, and the target is not written.
C7_NonObjectFails ==
    (Did(log, "decode") /\ jsonText.text # "{}") =>
        /\ err = "JsonUnmarshal"
        /\ ~Did(log, "infer")
        /\ ~Did(log, "write")

\* C8: an update reads its four (or five) parameter lines before it reads
\* the target, so when it ends at least four lines have been read.
C8_ParametersBeforeRead ==
    (action = Str("update") /\ pc \in {"prompt", "panicked"} /\ log # <<>>) =>
        /\ Count(log, "line") \in {4, 5}
        /\ \A i, j \in DOMAIN log : (log[i] = "read" /\ log[j] = "line") => j < i

IsPrefix(p, lg) == Len(p) <= Len(lg) /\ \A i \in DOMAIN p : lg[i] = p[i]

\* C8, amended: an update reads the file path and at once reads the target;
\* if that fails it ends having read that one line.  Otherwise it reads the
\* path, the method and the JSON input (and, after the keyword file, the
\* JSON file path), and only then decodes, infers, merges and writes.
C8_ReadThenParameters ==
    (action = Str("update") /\ pc \in {"prompt", "panicked"} /\ log # <<>>) =>
        \/ /\ log = <<"line", "read">>
           /\ err \in {"ReadFile", "YamlUnmarshal"}
        \/ /\ source = "literal"
           /\ IsPrefix(<<"line", "read", "line", "line", "line", "decode">>, log)
           /\ Count(log, "line") = 4
        \/ /\ source = "file"
           /\ IsPrefix(<<"line", "read", "line", "line", "line", "line", "readfile">>, log)
           /\ Count(log, "line") = 5
           /\ (Len(log) = 7 => err = "ReadFile")

\* An update that ended at the unreadable target, lines still to come.
C8_Witness ==
    /\ action = Str("update")
    /\ pc = "prompt"
    /\ log = <<"line", "read">>
    /\ err = "YamlUnmarshal"
    /\ remaining > 0

\* C9: the loop ends on every finite input stream.
C9_LoopEnds == <>(pc \notin Running)

\* C10: a sample typed at the prompt and the same sample read from a file
\* give the same document: the stored schema has one property per key of
\* the sample, named as the key is written.
C10_KeysAsWritten ==
    (pc = "prompt" /\ action = Str("update") /\ Did(log, "write") /\ err = "") =>
        /\ fs[filePath].kind = "yaml"
        /\ DOMAIN StoredSchema(fs[filePath].doc, path, method).properties
               = KeysOf(jsonText.members)

====
